---- MODULE Spec2Model ----
(***************************************************************************)
(* The charm builders of hpct-build-charms: charms-builder.py (series      *)
(* aware, with lxc provisioning from lxc.py) and the earlier               *)
(* build-charms.py.  Spec is one run of the "build" command: the          *)
(* orchestrating loop of __main__, Builder.build and lxc.provision, every  *)
(* external command being one step whose result (exit status zero, exit    *)
(* status non-zero, or an exception raised by the call) is chosen by the   *)
(* environment.  QuerySpec is one call of a list command or of one of the  *)
(* two queries Builder.build makes, on inputs of its own.                  *)
(*                                                                         *)
(* Strings are sequences of tokens; a Python value that may be None is a   *)
(* record [some, v].                                                       *)
(***************************************************************************)
EXTENDS Integers, Sequences, FiniteSets, TLC

\* ---------------------------------------------------------------- bounds

\* Largest number of name/pattern arguments on the command line.
MaxArgs == 2

\* Largest number of files of the output directory.
MaxFiles == 3

\* Largest number of base entries of a configuration or of a descriptor, in
\* the queries called on their own.
MaxBases == 2

\* --------------------------------------------------------- Python values

Some(x) == [some |-> TRUE, v |-> x]
NoneStr == [some |-> FALSE, v |-> <<>>]
NoneInt == [some |-> FALSE, v |-> 0]

\* d.get("image") followed by "not image": an absent key and an empty string
\* are both false.
GetImage(d) == IF "image" \in DOMAIN d THEN d["image"] ELSE ""

\* d.get(k) of a dictionary whose values are strings.
Get(d, k) == IF k \in DOMAIN d THEN Some(d[k]) ELSE NoneStr

\* The dictionary {}.
EmptyDict == [k \in {} |-> ""]

\* Positions of the hyphens of a string.
Hyphens(s) == {k \in 1..Len(s) : s[k] = "-"}

FirstHyphen(s) == CHOOSE k \in Hyphens(s) : \A j \in Hyphens(s) : k <= j

LastHyphen(s) == CHOOSE k \in Hyphens(s) : \A j \in Hyphens(s) : k >= j

\* s.rsplit("-", 1): the split at the last hyphen.
SplitLast(s) ==
    IF Hyphens(s) = {} THEN <<s>>
    ELSE <<SubSeq(s, 1, LastHyphen(s) - 1), SubSeq(s, LastHyphen(s) + 1, Len(s))>>

\* s.split("-", 1): one piece when s holds no hyphen, else the part before the
\* first hyphen and everything after it.
Split1(s) ==
    IF Hyphens(s) = {} THEN <<s>>
    ELSE <<SubSeq(s, 1, FirstHyphen(s) - 1), SubSeq(s, FirstHyphen(s) + 1, Len(s))>>

\* f"{name}-{channel}"
Fmt(name, channel) == name \o <<"-">> \o channel

\* fnmatch.fnmatch(name, pat) for patterns of literal tokens and "*".
RECURSIVE fnmatch(_, _)
fnmatch(name, pat) ==
    IF pat = <<>> THEN name = <<>>
    ELSE IF Head(pat) = "*"
         THEN \/ fnmatch(name, Tail(pat))
              \/ name # <<>> /\ fnmatch(Tail(name), pat)
         ELSE name # <<>> /\ Head(name) = Head(pat) /\ fnmatch(Tail(name), Tail(pat))

\* Code-point order of the tokens that occur in names.
Alphabet ==
    <<"*", "-", ".charm", "1.0", "2.0", "_", "a", "alpha", "b", "bar", "baz",
      "beta", "foo", "gamma", "txt">>

Rank(c) == CHOOSE k \in 1..Len(Alphabet) : Alphabet[k] = c

\* s < t for strings, as sorted() compares them.
RECURSIVE StrLess(_, _)
StrLess(s, t) ==
    IF t = <<>> THEN FALSE
    ELSE IF s = <<>> THEN TRUE
    ELSE IF Head(s) = Head(t) THEN StrLess(Tail(s), Tail(t))
    ELSE Rank(Head(s)) < Rank(Head(t))

\* sorted(S) of a set of distinct strings.
RECURSIVE SortedSet(_)
SortedSet(S) ==
    IF S = {} THEN <<>>
    ELSE LET m == CHOOSE x \in S : \A y \in S \ {x} : StrLess(x, y)
         IN  <<m>> \o SortedSet(S \ {m})

\* s <= t for strings.
StrLeq(s, t) == s = t \/ StrLess(s, t)

\* sorted(s) of a list of strings, equal strings kept.
RECURSIVE sorted(_)
sorted(s) ==
    IF s = <<>> THEN <<>>
    ELSE LET j == CHOOSE m \in 1..Len(s) : \A n \in 1..Len(s) : StrLeq(s[m], s[n])
         IN  <<s[j]>> \o sorted(SubSeq(s, 1, j - 1) \o SubSeq(s, j + 1, Len(s)))

\* The elements of a sequence.
Range(s) == {s[j] : j \in 1..Len(s)}

\* Number of entries of a sequence that are in a set.
RECURSIVE Count(_, _)
Count(s, S) ==
    IF s = <<>> THEN 0
    ELSE (IF Head(s) \in S THEN 1 ELSE 0) + Count(Tail(s), S)

\* Concatenation of a sequence of sequences.
RECURSIVE Flatten(_)
Flatten(ss) == IF ss = <<>> THEN <<>> ELSE Head(ss) \o Flatten(Tail(ss))

\* Sequences over S of length at most n.
SeqsUpTo(S, n) == UNION {[1..k -> S] : k \in 0..n}


\* ---------------------------------------------------------------- inputs

\* The keys of config["charms"].
Charms == {<<"a", "b">>, <<"b">>}

\* Name/pattern arguments of the command line.
Patterns == {<<"a", "*">>, <<"b">>, <<"*">>}

\* Values of the -s option: none given, two series of the form
\* <name>-<channel>, and a string without a hyphen.
SeriesArgs ==
    { NoneStr,
      Some(<<"jammy", "-", "stable">>),
      Some(<<"focal", "-", "stable">>),
      Some(<<"jammy">>) }

\* config["bases"]: no entry; jammy-stable without an image; jammy-stable with
\* an image; focal-stable with an image before jammy-stable without.
ConfigBases ==
    { <<>>,
      <<[name |-> <<"jammy">>, channel |-> <<"stable">>]>>,
      <<[name |-> <<"jammy">>, channel |-> <<"stable">>, image |-> "ubuntu:22.04"]>>,
      <<[name |-> <<"focal">>, channel |-> <<"stable">>, image |-> "ubuntu:20.04"],
        [name |-> <<"jammy">>, channel |-> <<"stable">>]>> }

\* Contents a charmcraft.yaml may have: two bases, one base, no "bases" key.
Descriptors ==
    { [bases |-> <<[name |-> <<"jammy">>, channel |-> <<"stable">>],
                   [name |-> <<"focal">>, channel |-> <<"stable">>]>>],
      [bases |-> <<[name |-> <<"focal">>, channel |-> <<"stable">>]>>],
      EmptyDict }

\* What a read of charmcraft.yaml finds: no file, or one of the contents.
NoFile == [some |-> FALSE, v |-> EmptyDict]

\* Contents the charm directory may have once a pack command has run.
CharmFile(n) == n \o <<"_", "1.0", ".charm">>
PlainCharmFile(n) == n \o <<".charm">>
OtherFile == <<"a", "txt">>
Listings(n) ==
    { <<>>,
      <<CharmFile(n)>>,
      <<OtherFile, CharmFile(n)>>,
      <<CharmFile(n), PlainCharmFile(n)>> }

\* filename.endswith(".charm")
EndsWithCharm(f) == f # <<>> /\ f[Len(f)] = ".charm"

\* A second configuration: the keys of its config["charms"].
Configured == {<<"alpha">>, <<"beta">>, <<"gamma">>}

\* Values of the -s option for the queries called on their own: one more
\* series, whose channel holds a hyphen.
QSeries == SeriesArgs \cup {Some(<<"focal", "-", "lts", "-", "x">>)}

\* Base entries of a configuration or of a descriptor. The last two give the
\* same string focal-lts-x, with the hyphen of the name at another place.
BaseEntries ==
    { [name |-> <<"jammy">>, channel |-> <<"stable">>, image |-> "ubuntu:22.04"],
      [name |-> <<"focal">>, channel |-> <<"stable">>],
      [name |-> <<"focal">>, channel |-> <<"lts", "-", "x">>],
      [name |-> <<"focal", "-", "lts">>, channel |-> <<"x">>] }

\* Values of config["bases"] and of the "bases" of a charmcraft.yaml.
BaseLists == SeqsUpTo(BaseEntries, MaxBases)

\* Files the output directory may hold.
DirFiles ==
    { <<"foo", "_", "1.0", ".charm">>,
      <<"foo", "_", "2.0", ".charm">>,
      <<"bar", "_", "2.0", ".charm">>,
      <<"baz", ".charm">>,
      <<"alpha", "_", "1.0", ".charm">>,
      <<"a", "b", "_", "1.0", ".charm">> }

\* The output directory: it does not exist, or it holds distinct files, in the
\* order os.walk gives them. It has no subdirectory.
NoDir == [some |-> FALSE, v |-> <<>>]
OutDirs ==
    {NoDir} \cup
    {Some(fs) : fs \in {x \in SeqsUpTo(DirFiles, MaxFiles) :
                           \A m, n \in 1..Len(x) : m # n => x[m] # x[n]}}

\* What a query has given back: the exception it raised or "none", and its
\* value, a list of names, a base entry or an index.
NoRet == [raised |-> "none", names |-> <<>>, base |-> EmptyDict, index |-> NoneInt]

\* Result of an external command or library call: exit status zero, exit
\* status non-zero, an exception raised by the call.
Results == {"ok", "fail", "raise"}

\* ----------------------------------------------------------------- state

VARIABLES
    prog,        \* the script that runs: "charms-builder" or "build-charms"
    config,      \* the configuration file: "ok", "missing", "malformed"
    charms,      \* the keys of Builder.config["charms"]
    series,      \* Builder.series
    bases,       \* Builder.config["bases"]
    names,       \* the name/pattern arguments
    cmd,         \* the command of the command line, or the query that is called
    outdir,      \* the output directory
    ret,         \* what the query has given back
    xnames,      \* _names: the packages to build, in order
    k,           \* number of packages whose build was started
    attempted,   \* the packages whose build was started, in order
    cloned,      \* cloned[n]: the charm directory of n exists
    pc,          \* the position of the run
    exc,         \* the exception that is propagating, or "none"
    outcome,     \* how the current build ended
    name,        \* build's name
    based,       \* build's based
    descr,       \* what get_charmcraft_bases_index read
    bases_index, \* build's bases_index
    manual,      \* build's manual: "unbound", "True", "False"
    lxci,        \* build's lxci: "unbound", "None", "inst"
    i,           \* build's i: the attempt under way (in BC_Pack: attempts made)
    packrc,      \* results of the pack attempts of the current build
    filenames,   \* build's filenames: the part of the listing not yet visited
    listed,      \* build's filenames as listdir gave them
    plxci,       \* provision's lxci: "unbound", "inst"
    launched,    \* lxc launch exited with status zero
    stepfail,    \* some provisioning step exited non-zero
    mounts,      \* the mount calls that exited with status zero
    calls,       \* the external calls of the current build, in order
    copied,      \* the files copied or pulled into charmsdir by the build
    pulls,       \* the files file_pull or shutil.copy was called for by the build
    errs,        \* number of "failed to build" lines of the current build
    diag         \* the "no base index" line was printed

inputs == <<prog, config, charms, series, bases, names>>
qv == <<cmd, outdir, ret>>
cfgv == <<inputs, qv, xnames>>
loopv == <<k, attempted>>
bv == <<name, based, descr, bases_index, manual, lxci, i, packrc, filenames, listed>>
pv == <<plxci, launched, stepfail, mounts>>
obs == <<calls, copied, pulls, errs, diag>>
vars == <<cfgv, loopv, cloned, pc, exc, outcome, bv, pv, obs>>

\* ------------------------------------------------------- Builder queries

\* Builder.get_charm_names: the configured names matching the pattern, sorted.
get_charm_names(pattern) ==
    SortedSet({n \in charms : pattern.some /\ pattern.v # <<>> => fnmatch(n, pattern.v)})

\* __main__ of both scripts: the names of each argument in turn.
ExpandNames(args) ==
    Flatten([j \in 1..Len(args) |-> get_charm_names(Some(args[j]))])

\* Builder.get_series_base, past the split: the first configured base of that
\* name and channel, or {}.
RECURSIVE FirstBase(_, _, _)
FirstBase(bs, nm, ch) ==
    IF bs = <<>> THEN EmptyDict
    ELSE IF Get(Head(bs), "name") = Some(nm) /\ Get(Head(bs), "channel") = Some(ch)
         THEN Head(bs)
         ELSE FirstBase(Tail(bs), nm, ch)

\* Builder.get_series_base raises: None has no split, and a string without a
\* hyphen does not unpack into name and channel.
SeriesBaseRaises(s) == ~s.some \/ Len(Split1(s.v)) # 2

get_series_base(s) == FirstBase(bases, Split1(s.v)[1], Split1(s.v)[2])

\* Builder.get_charmcraft_bases_index raises: charmcraft.yaml cannot be opened,
\* or it has no "bases" to enumerate.
BasesIndexRaises(file) == ~file.some \/ "bases" \notin DOMAIN file.v

\* An index that is the position of the last match.
get_charmcraft_bases_index_last(file, s) ==
    LET bs == file.v["bases"]
        hits == {j \in 1..Len(bs) : s = Some(Fmt(bs[j]["name"], bs[j]["channel"]))}
    IN  IF hits = {} THEN NoneInt
        ELSE Some((CHOOSE j \in hits : \A h \in hits : j >= h) - 1)

\* Builder.get_charmcraft_bases_index: the 0-based position of the first base
\* of the descriptor whose name-channel is the series, or None.
get_charmcraft_bases_index(file, s) ==
    LET bs == file.v["bases"]
        hits == {j \in 1..Len(bs) : s = Some(Fmt(bs[j]["name"], bs[j]["channel"]))}
    IN  IF hits = {} THEN NoneInt
        ELSE Some((CHOOSE j \in hits : \A h \in hits : j <= h) - 1)

\* The name before the suffix of a file without "_".
BuiltNameWithoutSuffix(f) ==
    IF "_" \in Range(f)
    THEN SubSeq(f, 1, (CHOOSE j \in 1..Len(f) :
                           f[j] = "_" /\ \A m \in 1..(j - 1) : f[m] # "_") - 1)
    ELSE IF EndsWithCharm(f) THEN SubSeq(f, 1, Len(f) - 1) ELSE f

\* Builder.get_built_charm_names, one file: filename[: filename.index("_")]
\* when "_" is in the filename, else the filename.
BuiltName(f) ==
    IF "_" \in Range(f)
    THEN SubSeq(f, 1, (CHOOSE j \in 1..Len(f) :
                           f[j] = "_" /\ \A m \in 1..(j - 1) : f[m] # "_") - 1)
    ELSE f

\* Builder.get_built_charm_names raises: os.walk of a directory that does not
\* exist yields nothing, and filenames is unbound after the loop.
BuiltNamesRaises(dir) == ~dir.some

\* Builder.get_built_charm_names without a pattern.
get_built_charm_names(dir) == sorted([j \in 1..Len(dir.v) |-> BuiltName(dir.v[j])])

\* The pattern the list commands pass: charms-builder.py passes the list of
\* its name arguments, build-charms.py passes nothing.
ListPattern == IF prog = "charms-builder" THEN names ELSE <<>>

\* The filter of get_charm_names and get_built_charm_names raises: the pattern
\* is a list that is not empty, and fnmatch.fnmatch is called with it for the
\* first candidate.
FilterRaises(pattern, candidates) == pattern # <<>> /\ candidates # <<>>

\* A difference that drops nothing.
list_missing_all(all_names, built_names) == SortedSet(Range(all_names))

\* list-missing: sorted(all_names.difference(built_names))
list_missing(all_names, built_names) ==
    SortedSet(Range(all_names) \ Range(built_names))



\* ------------------------------------------------------------ the run

\* The retry budgets: "manual and 1 or 2" of charms-builder.py, and maxtry of
\* build-charms.py.
MaxTryManual == 1
MaxTryAuto == 2
BCMaxTry == 2

\* The budget of the automatic path on both paths.
maxtry_auto_always == MaxTryAuto

maxtry == IF manual = "True" THEN MaxTryManual ELSE MaxTryAuto

\* What the run starts from, but for the inputs: nothing is built yet.
NothingBuilt ==
    /\ xnames = <<>>
    /\ k = 0
    /\ attempted = <<>>
    /\ exc = "none"
    /\ outcome = "none"
    /\ name = <<>>
    /\ based = EmptyDict
    /\ descr = NoFile
    /\ bases_index = NoneInt
    /\ manual = "unbound"
    /\ lxci = "unbound"
    /\ i = 0
    /\ packrc = <<>>
    /\ filenames = <<>>
    /\ listed = <<>>
    /\ plxci = "unbound"
    /\ launched = FALSE
    /\ stepfail = FALSE
    /\ mounts = {}
    /\ calls = <<>>
    /\ copied = <<>>
    /\ pulls = <<>>
    /\ errs = 0
    /\ diag = FALSE

\* States of the configuration file.
Configs == {"ok", "missing", "malformed"}

\* A load that accepts every configuration file.
ConfigLoadNeverRaises(c) == FALSE

\* Builder.__init__ raises: yaml.safe_load(open(configpath)) of a file that is
\* missing or is not YAML.
ConfigRaises(c) == c # "ok"

Init ==
    /\ prog \in {"charms-builder", "build-charms"}
    /\ config \in Configs
    /\ charms = Charms
    /\ series \in (IF prog = "charms-builder" THEN SeriesArgs ELSE {NoneStr})
    /\ bases \in (IF prog = "charms-builder" /\ config = "ok" THEN ConfigBases ELSE {<<>>})
    /\ names \in SeqsUpTo(Patterns, MaxArgs)
    /\ cmd = "build"
    /\ outdir = Some(<<>>)
    /\ ret = NoRet
    /\ cloned \in [Charms -> BOOLEAN]
    /\ pc = "init"
    /\ NothingBuilt

\* b = Builder(configpath, workdir, charmsdir, series): the configuration is
\* loaded, and an exception of the load ends the run.
Main_Init ==
    /\ pc = "init"
    /\ IF ConfigRaises(config)
       THEN /\ pc' = "aborted"
            /\ exc' = IF config = "missing" THEN "FileNotFoundError" ELSE "YAMLError"
       ELSE /\ pc' = "expand"
            /\ UNCHANGED exc
    /\ UNCHANGED <<cfgv, loopv, cloned, outcome, bv, pv, obs>>

\* __main__, "build": the names of every argument are collected.
Main_Expand ==
    /\ pc = "expand"
    /\ xnames' = ExpandNames(names)
    /\ pc' = "loop"
    /\ UNCHANGED <<inputs, qv, loopv, cloned, exc, outcome, bv, pv, obs>>

\* __main__ calls build for the next name; build looks up the package and
\* makes the directories.
Main_Build ==
    /\ pc = "loop"
    /\ k < Len(xnames)
    /\ k' = k + 1
    /\ attempted' = Append(attempted, xnames[k + 1])
    /\ name' = xnames[k + 1]
    /\ based' = EmptyDict
    /\ descr' = NoFile
    /\ bases_index' = NoneInt
    /\ manual' = "unbound"
    /\ lxci' = "unbound"
    /\ i' = 0
    /\ packrc' = <<>>
    /\ filenames' = <<>>
    /\ listed' = <<>>
    /\ plxci' = "unbound"
    /\ launched' = FALSE
    /\ stepfail' = FALSE
    /\ mounts' = {}
    /\ calls' = <<>>
    /\ copied' = <<>>
    /\ pulls' = <<>>
    /\ errs' = 0
    /\ diag' = FALSE
    /\ exc' = "none"
    /\ outcome' = "running"
    /\ pc' = IF prog = "charms-builder" THEN "sync" ELSE "bc_sync"
    /\ UNCHANGED <<cfgv, cloned>>

\* The locals of build are gone, and with them the record of its calls.
BuildLeft ==
    /\ name' = <<>>
    /\ based' = EmptyDict
    /\ descr' = NoFile
    /\ bases_index' = NoneInt
    /\ manual' = "unbound"
    /\ lxci' = "unbound"
    /\ i' = 0
    /\ packrc' = <<>>
    /\ filenames' = <<>>
    /\ listed' = <<>>
    /\ plxci' = "unbound"
    /\ launched' = FALSE
    /\ stepfail' = FALSE
    /\ mounts' = {}
    /\ calls' = <<>>
    /\ copied' = <<>>
    /\ pulls' = <<>>
    /\ errs' = 0
    /\ diag' = FALSE

\* build has returned or raised: "except: raise" ends the run on an
\* exception, otherwise the loop goes on.
Main_Next ==
    /\ pc = "ret"
    /\ pc' = IF outcome = "raised" THEN "aborted" ELSE "loop"
    /\ BuildLeft
    /\ UNCHANGED <<cfgv, loopv, cloned, exc, outcome>>

\* The loop has no name left.
Main_Done ==
    /\ pc = "loop"
    /\ k = Len(xnames)
    /\ pc' = "done"
    /\ UNCHANGED <<cfgv, loopv, cloned, exc, outcome, bv, pv, obs>>

\* An exception leaves build from outside its try statement.
RaiseOut(e) == pc' = "ret" /\ outcome' = "raised" /\ exc' = e

\* clone or pull: git clone when the charm directory is missing, which makes
\* it when it succeeds, else git pull; the exit status is not looked at.
SyncStep(next) ==
    /\ calls' = Append(calls, IF cloned[name] THEN "git_pull" ELSE "git_clone")
    /\ \E r \in Results :
        /\ cloned' = [cloned EXCEPT ![name] = @ \/ r = "ok"]
        /\ IF r = "raise" THEN RaiseOut("OSError")
           ELSE pc' = next /\ UNCHANGED <<exc, outcome>>
    /\ UNCHANGED <<cfgv, loopv, bv, pv, copied, pulls, errs, diag>>

Sync == pc = "sync" /\ SyncStep("series_base")

\* based = self.get_series_base(self.series)
GetSeriesBase ==
    /\ pc = "series_base"
    /\ IF SeriesBaseRaises(series)
       THEN RaiseOut(IF series.some THEN "ValueError" ELSE "AttributeError")
            /\ UNCHANGED based
       ELSE /\ based' = get_series_base(series)
            /\ pc' = "bases_index"
            /\ UNCHANGED <<exc, outcome>>
    /\ UNCHANGED <<cfgv, loopv, cloned, name, descr, bases_index, manual, lxci, i,
                   packrc, filenames, listed, pv, obs>>

\* The test written with "self.series == None": a build with an unmatched
\* series would go on.
NoBaseIndexSeriesTestInverted(s, idx) == ~s.some /\ ~idx.some

\* The test before build's return: self.series != None and bases_index == None.
NoBaseIndex(s, idx) == s.some /\ ~idx.some

\* bases_index = self.get_charmcraft_bases_index(charm_dir, self.series), and
\* the return when a series was asked for and no index was found.
GetBasesIndex ==
    /\ pc = "bases_index"
    /\ \E file \in {NoFile} \cup {Some(d) : d \in {x \in Descriptors : cloned[name]}} :
        /\ descr' = file
        /\ IF BasesIndexRaises(file)
           THEN RaiseOut(IF file.some THEN "TypeError" ELSE "FileNotFoundError")
                /\ UNCHANGED <<bases_index, diag>>
           ELSE /\ bases_index' = get_charmcraft_bases_index(file, series)
                /\ IF NoBaseIndex(series, bases_index')
                   THEN /\ diag' = TRUE
                        /\ pc' = "ret"
                        /\ outcome' = "skipped"
                        /\ UNCHANGED exc
                   ELSE /\ pc' = "try"
                        /\ UNCHANGED <<diag, exc, outcome>>
    /\ UNCHANGED <<cfgv, loopv, cloned, name, based, manual, lxci, i, packrc,
                   filenames, listed, pv, calls, copied, pulls, errs>>

\* The head of the try statement: automatic when the base has no image, else
\* manual, with the call of lxc.provision.
Decide ==
    /\ pc = "try"
    /\ IF GetImage(based) = ""
       THEN /\ manual' = "False"
            /\ lxci' = "None"
            /\ i' = 1
            /\ pc' = "pack"
            /\ UNCHANGED calls
       ELSE /\ manual' = "True"
            /\ calls' = Append(calls, "provision")
            /\ pc' = "df"
            /\ UNCHANGED <<lxci, i>>
    /\ UNCHANGED <<cfgv, loopv, cloned, exc, outcome, name, based, descr, bases_index,
                   packrc, filenames, listed, pv, copied, pulls, errs, diag>>


\* ------------------------------------------------------- lxc.provision

\* An exception in build's try statement: on to the finally clause.
RaiseInTry(e) == pc' = "finally" /\ exc' = e

\* The mount calls of setup_overlay: the overlay mount and the bind mount.
MountCalls == {"mount_overlay", "mount_bind"}

\* The passthrough device is added with readonly=true.
DeviceReadOnly == TRUE

\* Where a write of the pack command under the path of the source goes. After
\* the bind mount the path shows the merge directory: the overlay, whose
\* upper directory takes the writes, or, when the overlay mount failed, the
\* bare directory of the scratch area. Without the bind mount the path shows
\* the passthrough device, if it is there at all: it refuses writes when
\* read-only and else hands them to the host.
WriteTarget ==
    IF "mount_bind" \in mounts
    THEN IF "mount_overlay" \in mounts THEN "upper" ELSE "merge"
    ELSE IF DeviceReadOnly THEN "refused" ELSE "host"

\* One command of provision on the instance: its exit status is not looked
\* at, and an exception of the call goes to provision's except clause.
ProvExec(call, next) ==
    /\ calls' = Append(calls, call)
    /\ \E r \in Results :
        /\ pc' = IF r = "raise" THEN "prov_except" ELSE next
        /\ stepfail' = (stepfail \/ r = "fail")
        /\ launched' = IF call = "launch" THEN r = "ok" ELSE launched
        /\ mounts' = IF r = "ok" /\ call \in MountCalls THEN mounts \cup {call} ELSE mounts
    /\ UNCHANGED <<cfgv, loopv, cloned, exc, outcome, bv, plxci, copied, pulls, errs, diag>>

\* df for the mount point of charm_dir: exit status 1 returns None, which
\* build turns into an exception; otherwise the LxcInstance object is made.
Provision_df ==
    /\ pc = "df"
    /\ calls' = Append(calls, "df")
    /\ \E r \in Results :
        \/ /\ r = "ok"
           /\ plxci' = "inst"
           /\ pc' = "launch"
           /\ UNCHANGED <<lxci, exc>>
        \/ /\ r = "fail"
           /\ lxci' = "None"
           /\ RaiseInTry("Exception")
           /\ UNCHANGED plxci
        \/ /\ r = "raise"
           /\ pc' = "prov_except"
           /\ UNCHANGED <<plxci, lxci, exc>>
    /\ UNCHANGED <<cfgv, loopv, cloned, outcome, name, based, descr, bases_index,
                   manual, i, packrc, filenames, listed, launched, stepfail, mounts, copied,
                   pulls, errs, diag>>

Provision_launch == pc = "launch" /\ ProvExec("launch", "config_device")

Provision_config_device == pc = "config_device" /\ ProvExec("config_device", "mkdir_upper")

Overlay_mkdir_upper == pc = "mkdir_upper" /\ ProvExec("mkdir_upper", "mkdir_work")

Overlay_mkdir_work == pc = "mkdir_work" /\ ProvExec("mkdir_work", "mkdir_merge")

Overlay_mkdir_merge == pc = "mkdir_merge" /\ ProvExec("mkdir_merge", "mount_overlay")

\* A setup_overlay that binds without mounting the overlay.
Overlay_bind_only == pc = "mount_overlay" /\ ProvExec("mount_bind", "getpw")

Overlay_mount_overlay == pc = "mount_overlay" /\ ProvExec("mount_overlay", "mount_bind")

Overlay_mount_bind == pc = "mount_bind" /\ ProvExec("mount_bind", "getpw")

\* pwd.getpwuid and grp.getgrgid: they return or raise KeyError.
Provision_getpw ==
    /\ pc = "getpw"
    /\ \E r \in {"ok", "raise"} : pc' = IF r = "raise" THEN "prov_except" ELSE "add_group"
    /\ UNCHANGED <<cfgv, loopv, cloned, exc, outcome, bv, pv, obs>>

Provision_add_group == pc = "add_group" /\ ProvExec("groupadd", "add_user")

Provision_add_user == pc = "add_user" /\ ProvExec("useradd", "prov_return")

\* provision returns lxci and build enters its loop.
Provision_Return ==
    /\ pc = "prov_return"
    /\ lxci' = "inst"
    /\ i' = 1
    /\ pc' = "pack"
    /\ UNCHANGED <<cfgv, loopv, cloned, exc, outcome, name, based, descr, bases_index,
                   manual, packrc, filenames, listed, pv, obs>>

\* provision's except clause: lxci.stop(), without force.  With lxci not yet
\* assigned the clause itself raises; so does a stop that raises; otherwise
\* provision returns None and build raises.
Provision_Except ==
    /\ pc = "prov_except"
    /\ IF plxci = "unbound"
       THEN RaiseInTry("UnboundLocalError") /\ UNCHANGED <<lxci, calls>>
       ELSE /\ calls' = Append(calls, "stop")
            /\ \E r \in Results :
                /\ lxci' = IF r = "raise" THEN lxci ELSE "None"
                /\ RaiseInTry(IF r = "raise" THEN "OSError" ELSE "Exception")
    /\ UNCHANGED <<cfgv, loopv, cloned, outcome, name, based, descr, bases_index,
                   manual, i, packrc, filenames, listed, pv, copied, pulls, errs, diag>>

\* ------------------------------------------------- build, the try statement

\* After an attempt: the next one, or the end of the for loop.
AfterAttempt == IF i + 1 > maxtry THEN "finally" ELSE "pack"

\* One attempt: charmcraft pack in the instance or on the host.  Exit status
\* zero goes on to the copy, any other prints the failure.
Pack ==
    /\ pc = "pack"
    /\ i <= maxtry
    /\ calls' = Append(calls, IF manual = "True" THEN "pack_inst" ELSE "pack_host")
    /\ \E r \in Results :
        /\ packrc' = Append(packrc, r)
        /\ \/ /\ r = "ok"
              /\ pc' = "copy"
              /\ UNCHANGED <<i, errs, exc>>
           \/ /\ r = "fail"
              /\ errs' = errs + 1
              /\ i' = i + 1
              /\ pc' = AfterAttempt
              /\ UNCHANGED exc
           \/ /\ r = "raise"
              /\ RaiseInTry("OSError")
              /\ UNCHANGED <<i, errs>>
    /\ UNCHANGED <<cfgv, loopv, cloned, outcome, name, based, descr, bases_index,
                   manual, lxci, filenames, listed, pv, copied, pulls, diag>>

\* filenames = lxci.listdir(charm_dir) or os.listdir(charm_dir); listdir of
\* the instance gives [] when ls exits non-zero.
ListDir ==
    /\ pc = "copy"
    /\ IF manual = "True"
       THEN /\ calls' = Append(calls, "listdir")
            /\ \E r \in Results :
                \/ r = "ok" /\ filenames' \in Listings(name) /\ listed' = filenames'
                     /\ pc' = "copyfile" /\ UNCHANGED exc
                \/ r = "fail" /\ filenames' = <<>> /\ listed' = <<>>
                     /\ pc' = "copyfile" /\ UNCHANGED exc
                \/ r = "raise" /\ RaiseInTry("OSError") /\ UNCHANGED <<filenames, listed>>
       ELSE /\ filenames' \in Listings(name)
            /\ listed' = filenames'
            /\ pc' = "copyfile"
            /\ UNCHANGED <<calls, exc>>
    /\ UNCHANGED <<cfgv, loopv, cloned, outcome, name, based, descr, bases_index,
                   manual, lxci, i, packrc, pv, copied, pulls, errs, diag>>

\* The next filename: a name ending in ".charm" is pulled from the instance
\* (exit status not looked at) or copied on the host (shutil.copy returns or
\* raises).
CopyFile ==
    /\ pc = "copyfile"
    /\ filenames # <<>>
    /\ filenames' = Tail(filenames)
    /\ IF EndsWithCharm(Head(filenames))
       THEN /\ calls' = Append(calls, IF manual = "True" THEN "file_pull" ELSE "copy")
            /\ pulls' = Append(pulls, Head(filenames))
            /\ \E r \in (IF manual = "True" THEN Results ELSE {"ok", "raise"}) :
                /\ copied' = IF r = "ok" THEN Append(copied, Head(filenames)) ELSE copied
                /\ IF r = "raise" THEN RaiseInTry("OSError") ELSE UNCHANGED <<pc, exc>>
       ELSE UNCHANGED <<calls, copied, pulls, pc, exc>>
    /\ UNCHANGED <<cfgv, loopv, cloned, outcome, name, based, descr, bases_index,
                   manual, lxci, i, packrc, listed, pv, errs, diag>>

\* The listing is through: the for loop goes on.
CopyDone ==
    /\ pc = "copyfile"
    /\ filenames = <<>>
    /\ i' = i + 1
    /\ pc' = AfterAttempt
    /\ UNCHANGED <<cfgv, loopv, cloned, exc, outcome, name, based, descr, bases_index,
                   manual, lxci, packrc, filenames, listed, pv, obs>>

\* The finally clause: lxci.stop(force=True) when manual.  lxci is None or
\* not assigned when provision gave no instance, and the clause raises; an
\* exception of the clause takes the place of the one that was propagating.
Finally ==
    /\ pc = "finally"
    /\ pc' = "ret"
    /\ IF manual = "True"
       THEN IF lxci = "inst"
            THEN /\ calls' = Append(calls, "stop_force")
                 /\ \E r \in Results : exc' = IF r = "raise" THEN "OSError" ELSE exc
            ELSE /\ exc' = IF lxci = "None" THEN "AttributeError" ELSE "UnboundLocalError"
                 /\ UNCHANGED calls
       ELSE UNCHANGED <<calls, exc>>
    /\ outcome' = IF exc' = "none" THEN "returned" ELSE "raised"
    /\ UNCHANGED <<cfgv, loopv, cloned, bv, pv, copied, pulls, errs, diag>>

\* ------------------------------------------------- build-charms.py, build

BC_Sync == pc = "bc_sync" /\ SyncStep("bc_pack")

\* The artifact build-charms.py looks for.
BCCharmFile(n) == n \o <<"_", "ubuntu-22.04-amd64", ".charm">>

\* One attempt of build-charms.py: charmcraft pack, then the artifact is
\* copied and the loop left when it exists; the else clause of the for
\* statement prints the failure when no attempt left the loop.
BC_Pack ==
    /\ pc = "bc_pack"
    /\ calls' = Append(calls, "pack_host")
    /\ \E r \in Results, exists \in BOOLEAN :
        IF r = "raise"
        THEN RaiseOut("OSError") /\ UNCHANGED <<i, packrc, copied, pulls, errs>>
        ELSE /\ packrc' = Append(packrc, IF exists THEN "ok" ELSE "fail")
             /\ i' = i + 1
             /\ UNCHANGED exc
             /\ IF exists
                THEN /\ copied' = Append(copied, BCCharmFile(name))
                     /\ pulls' = Append(pulls, BCCharmFile(name))
                     /\ pc' = "ret"
                     /\ outcome' = "returned"
                     /\ UNCHANGED errs
                ELSE /\ UNCHANGED <<copied, pulls>>
                     /\ IF i + 1 >= BCMaxTry
                        THEN pc' = "ret" /\ outcome' = "returned" /\ errs' = errs + 1
                        ELSE UNCHANGED <<pc, outcome, errs>>
    /\ UNCHANGED <<cfgv, loopv, cloned, name, based, descr, bases_index, manual, lxci,
                   filenames, listed, pv, diag>>

Next ==
    \/ Main_Init
    \/ Main_Expand
    \/ Main_Build
    \/ Main_Next
    \/ Main_Done
    \/ Sync
    \/ GetSeriesBase
    \/ GetBasesIndex
    \/ Decide
    \/ Provision_df
    \/ Provision_launch
    \/ Provision_config_device
    \/ Overlay_mkdir_upper
    \/ Overlay_mkdir_work
    \/ Overlay_mkdir_merge
    \/ Overlay_mount_overlay
    \/ Overlay_mount_bind
    \/ Provision_getpw
    \/ Provision_add_group
    \/ Provision_add_user
    \/ Provision_Return
    \/ Provision_Except
    \/ Pack
    \/ ListDir
    \/ CopyFile
    \/ CopyDone
    \/ Finally
    \/ BC_Sync
    \/ BC_Pack

Spec == Init /\ [][Next]_vars


\* ------------------------------------------------- the queries on their own

\* The list commands of both scripts, and the two queries Builder.build makes,
\* each called once on inputs of its own.
QCmds == {"list", "list-built", "list-missing", "get_series_base",
          "get_charmcraft_bases_index"}

QInit ==
    /\ cmd \in QCmds
    /\ prog \in (IF cmd \in {"list", "list-built", "list-missing"}
                 THEN {"charms-builder", "build-charms"} ELSE {"charms-builder"})
    /\ config = "ok"
    /\ charms \in (IF cmd \in {"list", "list-missing"} THEN {Charms, Configured}
                   ELSE {Charms})
    /\ series \in (IF cmd \in {"get_series_base", "get_charmcraft_bases_index"}
                   THEN QSeries ELSE {NoneStr})
    /\ bases \in (IF cmd = "get_series_base" THEN BaseLists ELSE {<<>>})
    /\ names \in (IF cmd \in {"list", "list-built", "list-missing"}
                  THEN SeqsUpTo(Patterns, 1) ELSE {<<>>})
    /\ outdir \in (IF cmd \in {"list-built", "list-missing"} THEN OutDirs
                   ELSE {Some(<<>>)})
    /\ ret = NoRet
    /\ cloned = [n \in Charms |-> TRUE]
    /\ pc = "query"
    /\ NothingBuilt

\* The query raises e.
Raised(e) == [NoRet EXCEPT !.raised = e]

\* The query is over, with r given back.
QReturn(r) ==
    /\ pc' = "returned"
    /\ ret' = r
    /\ UNCHANGED <<inputs, cmd, outdir, xnames, loopv, cloned, exc, outcome, name,
                   based, bases_index, manual, lxci, i, packrc, filenames, listed, pv, obs>>

\* print("\n".join(b.get_charm_names(...)))
Q_List ==
    /\ pc = "query"
    /\ cmd = "list"
    /\ QReturn(IF FilterRaises(ListPattern, get_charm_names(NoneStr))
               THEN Raised("TypeError")
               ELSE [NoRet EXCEPT !.names = get_charm_names(NoneStr)])
    /\ UNCHANGED descr

\* print("\n".join(b.get_built_charm_names(...)))
Q_ListBuilt ==
    /\ pc = "query"
    /\ cmd = "list-built"
    /\ QReturn(IF BuiltNamesRaises(outdir) THEN Raised("UnboundLocalError")
               ELSE IF FilterRaises(ListPattern, outdir.v) THEN Raised("TypeError")
               ELSE [NoRet EXCEPT !.names = get_built_charm_names(outdir)])
    /\ UNCHANGED descr

\* all_names, then built_names, then the sorted difference.
Q_ListMissing ==
    /\ pc = "query"
    /\ cmd = "list-missing"
    /\ QReturn(IF FilterRaises(ListPattern, get_charm_names(NoneStr))
               THEN Raised("TypeError")
               ELSE IF BuiltNamesRaises(outdir) THEN Raised("UnboundLocalError")
               ELSE IF FilterRaises(ListPattern, outdir.v) THEN Raised("TypeError")
               ELSE [NoRet EXCEPT !.names =
                        list_missing(get_charm_names(NoneStr),
                                     get_built_charm_names(outdir))])
    /\ UNCHANGED descr

\* self.get_series_base(self.series)
Q_GetSeriesBase ==
    /\ pc = "query"
    /\ cmd = "get_series_base"
    /\ QReturn(IF ~series.some THEN Raised("AttributeError")
               ELSE IF SeriesBaseRaises(series) THEN Raised("ValueError")
               ELSE [NoRet EXCEPT !.base = get_series_base(series)])
    /\ UNCHANGED descr

\* self.get_charmcraft_bases_index(charm_dir, self.series), on a charm_dir
\* without charmcraft.yaml or with one.
Q_GetBasesIndex ==
    /\ pc = "query"
    /\ cmd = "get_charmcraft_bases_index"
    /\ \E file \in {NoFile, Some(EmptyDict)} \cup {Some([bases |-> bs]) : bs \in BaseLists} :
        /\ descr' = file
        /\ QReturn(IF ~file.some THEN Raised("FileNotFoundError")
                   ELSE IF BasesIndexRaises(file) THEN Raised("TypeError")
                   ELSE [NoRet EXCEPT !.index = get_charmcraft_bases_index(file, series)])

QNext ==
    \/ Q_List
    \/ Q_ListBuilt
    \/ Q_ListMissing
    \/ Q_GetSeriesBase
    \/ Q_GetBasesIndex

QuerySpec == QInit /\ [][QNext]_vars

\* ---------------------------------------------------------------- claims

\* Number of calls of the current build that are among ops.
NCalls(ops) == Count(calls, ops)

PackCalls == {"pack_host", "pack_inst"}
StopCalls == {"stop", "stop_force"}

\* build has returned or raised and __main__ has not yet gone on.
BuildEnded == pc = "ret"

\* No configured base names an image.
NoImageConfigured == \A j \in 1..Len(bases) : GetImage(bases[j]) = ""

\* C1: a build of charms-builder.py without requested series, no configured
\* base having an image, and no external command raising, ends with the pack
\* command run on the host at least once and lxc.provision never called.
C1_NoSeriesBuildsOnHost ==
    (/\ prog = "charms-builder"
     /\ BuildEnded
     /\ ~series.some
     /\ NoImageConfigured
     /\ exc # "OSError")
    => NCalls({"pack_host"}) >= 1 /\ NCalls({"provision"}) = 0

\* C2: when a manual build whose instance was launched has ended, by return or
\* by exception, exactly one stop(force=True) was called on the instance.
C2_OneForcedStop ==
    (BuildEnded /\ manual = "True" /\ launched) => NCalls({"stop_force"}) = 1

\* Provisioning was tried as far as launch and failed: a step exited non-zero,
\* or build got no instance.
ProvisionStepFailed ==
    /\ manual = "True"
    /\ NCalls({"launch"}) = 1
    /\ stepfail \/ lxci # "inst"

\* C3: when a build whose provisioning failed at launch or later has ended, the
\* instance got one stop call if launch succeeded and none if it did not.
C3_StopsAfterFailedProvisioning ==
    (BuildEnded /\ ProvisionStepFailed)
    => NCalls(StopCalls) = IF launched THEN 1 ELSE 0

\* C4: build holds an instance returned by lxc.provision only if no
\* provisioning step failed.
C4_InstanceOnlyWhenAllStepsSucceeded ==
    lxci = "inst" => launched /\ ~stepfail

\* The run is over, by the end of the loop or by an exception.
RunOver == pc \in {"done", "aborted"}

\* C5: when the run is over and nothing worse happened than clone or pull
\* failures, skipped series, failed pack commands or a missing build
\* descriptor, every package of the batch has had its build started.
C5_BatchNotAborted ==
    (RunOver /\ exc \in {"none", "FileNotFoundError"}) => attempted = xnames

\* lxc.provision gave build no instance: it returned None or raised.
NoInstance == manual = "True" /\ lxci # "inst"

\* C6: a build that got no instance ends with the failure of the package
\* reported, no pack command run, and no exception for __main__, which goes
\* on with the next package.
C6_ProvisionFailureIsPerPackage ==
    (BuildEnded /\ NoInstance)
    => errs >= 1 /\ NCalls(PackCalls) = 0 /\ outcome # "raised"

\* A series <name>-<channel> was requested and no configured base has that
\* name and channel.
NoConfiguredBase ==
    /\ series.some
    /\ Len(Split1(series.v)) = 2
    /\ \A j \in 1..Len(bases) :
        ~(bases[j]["name"] = Split1(series.v)[1] /\ bases[j]["channel"] = Split1(series.v)[2])

\* C7: with a requested series that has no configured base, build has an
\* empty base, runs no pack command, and a build that ends without exception
\* ends as skipped.
C7_UnconfiguredSeriesSkipped ==
    (prog = "charms-builder" /\ NoConfiguredBase)
    => /\ DOMAIN based = {}
       /\ NCalls(PackCalls) = 0
       /\ (BuildEnded /\ exc = "none" => outcome = "skipped")

\* The build descriptor was read, it lists bases, and none of them is the
\* requested series.
NoDescriptorMatch ==
    /\ series.some
    /\ descr.some
    /\ "bases" \in DOMAIN descr.v
    /\ \A j \in 1..Len(descr.v["bases"]) :
        Fmt(descr.v["bases"][j]["name"], descr.v["bases"][j]["channel"]) # series.v

\* C8: once the build descriptor is read and none of its bases is the
\* requested series, the build has ended as skipped with the "no base index"
\* line printed; no pack command was run on the host or in an instance,
\* lxc.provision was not called, and nothing was copied to charmsdir.
C8_UnmatchedSeriesSkipped ==
    (prog = "charms-builder" /\ NoDescriptorMatch)
    => /\ outcome = "skipped"
       /\ diag
       /\ pc \in {"ret", "loop", "done"}
       /\ NCalls(PackCalls) = 0
       /\ NCalls({"provision", "launch"}) = 0
       /\ copied = <<>>

\* Witness of C8: a build was skipped for a series that has a configured base
\* with an image, in a cloned repository whose descriptor lists other bases.
C8_Witness ==
    /\ prog = "charms-builder"
    /\ BuildEnded
    /\ NoDescriptorMatch
    /\ Len(descr.v["bases"]) >= 1
    /\ GetImage(based) # ""
    /\ outcome = "skipped"

\* C9: on the automatic path at most MaxTryAuto pack attempts are made, and
\* no attempt follows a successful one.
C9_NoPackAfterSuccess ==
    manual # "True"
    => /\ Len(packrc) <= MaxTryAuto
       /\ \A j \in 1..Len(packrc) : packrc[j] = "ok" => j = Len(packrc)

\* C10: an automatic build that ended without exception, and in which no
\* attempt followed a successful one, reported a failure if and only if it
\* made MaxTryAuto attempts and all of them failed; after a failed first and
\* a successful second attempt no failure is reported.
C10_FailureIffAllAttemptsFailed ==
    (/\ BuildEnded
     /\ manual # "True"
     /\ exc = "none"
     /\ packrc # <<>>
     /\ \A j \in 1..Len(packrc) : packrc[j] = "ok" => j = Len(packrc))
    => (errs >= 1 <=> /\ Len(packrc) = MaxTryAuto
                      /\ \A j \in 1..Len(packrc) : packrc[j] = "fail")

\* The run was ended by the load of the configuration file.
ConfigError == pc = "aborted" /\ config # "ok"

\* A build has raised at its read of the package's descriptor, which ends the
\* run: the file is missing, or it declares no bases.
DescriptorError ==
    /\ BuildEnded
    /\ outcome = "raised"
    /\ exc \in {"FileNotFoundError", "TypeError"}

NameOfFile(f, x) ==
    \/ "_" \notin Range(f) /\ x = f
    \/ \E j \in 1..Len(f) : f[j] = "_" /\ x = SubSeq(f, 1, j - 1) /\ "_" \notin Range(x)

\* The beginnings of the file names of a directory.
Prefixes(fs) ==
    UNION {{SubSeq(fs[j], 1, n) : n \in 0..Len(fs[j])} : j \in 1..Len(fs)}

Ascending(s) == \A j \in 1..(Len(s) - 1) : StrLeq(s[j], s[j + 1])

\* list-built has given back a list.
ListBuiltDone == pc = "returned" /\ cmd = "list-built" /\ ret.raised = "none"

\* The output directory of the example, its files in any order.
ExampleDir ==
    /\ outdir.some
    /\ Range(outdir.v) = { <<"foo", "_", "1.0", ".charm">>,
                           <<"bar", "_", "2.0", ".charm">>,
                           <<"baz", ".charm">> }

\* C12 as stated: get_built_charm_names gives a list sorted ascending, and
\* for the directory of foo_1.0.charm, bar_2.0.charm and baz.charm it gives
\* bar, baz, foo.
C12_BuiltNamesExample ==
    ListBuiltDone =>
        /\ Ascending(ret.names)
        /\ ExampleDir => ret.names = <<(<<"bar">>), (<<"baz">>), (<<"foo">>)>>

\* C12, amended: get_built_charm_names gives, sorted ascending and once per
\* file, what stands before the first "_" of each file name of the output
\* directory, and the whole file name when it holds no "_"; for the directory
\* of foo_1.0.charm, bar_2.0.charm and baz.charm it gives bar, baz.charm, foo.
C12_BuiltNamesVerbatim ==
    ListBuiltDone =>
        /\ Ascending(ret.names)
        /\ Len(ret.names) = Len(outdir.v)
        /\ \A x \in Range(ret.names) \cup Prefixes(outdir.v) :
              Count(ret.names, {x}) =
                  Cardinality({j \in 1..Len(outdir.v) : NameOfFile(outdir.v[j], x)})
        /\ ExampleDir => ret.names = <<(<<"bar">>), (<<"baz", ".charm">>), (<<"foo">>)>>

\* list-built has answered for the directory of the example.
C12_Witness == ListBuiltDone /\ ExampleDir /\ Len(ret.names) = 3

\* list-missing has given back a list.
ListMissingDone == pc = "returned" /\ cmd = "list-missing" /\ ret.raised = "none"

\* The names that have a file in the output directory.
BuiltOf(dir) == {x \in Prefixes(dir.v) : \E j \in 1..Len(dir.v) : NameOfFile(dir.v[j], x)}

\* C13: the list list-missing gives is sorted, without repetition, and holds
\* the configured names that have no file in the output directory; for the
\* configured names alpha, beta, gamma and the built names alpha it is
\* beta, gamma.
C13_MissingIsSortedDifference ==
    ListMissingDone =>
        /\ \A j \in 1..(Len(ret.names) - 1) : StrLess(ret.names[j], ret.names[j + 1])
        /\ Range(ret.names) = charms \ BuiltOf(outdir)
        /\ (charms = Configured /\ BuiltOf(outdir) = {<<"alpha">>})
              => ret.names = <<(<<"beta">>), (<<"gamma">>)>>

\* list-missing has answered for alpha, beta, gamma with alpha built.
C13_Witness ==
    /\ ListMissingDone
    /\ charms = Configured
    /\ BuiltOf(outdir) = {<<"alpha">>}
    /\ Len(ret.names) = 2

\* get_charmcraft_bases_index has given back an index or None.
BasesIndexDone ==
    pc = "returned" /\ cmd = "get_charmcraft_bases_index" /\ ret.raised = "none"

\* The j-th base entry of the descriptor reads <name>-<channel> as the series.
EntryIsSeries(j) ==
    /\ series.some
    /\ series.v = descr.v["bases"][j]["name"] \o <<"-">> \o descr.v["bases"][j]["channel"]

\* The descriptor of the example: jammy/stable, then focal/stable.
ExampleDescriptor ==
    /\ Len(descr.v["bases"]) = 2
    /\ descr.v["bases"][1]["name"] = <<"jammy">>
    /\ descr.v["bases"][1]["channel"] = <<"stable">>
    /\ descr.v["bases"][2]["name"] = <<"focal">>
    /\ descr.v["bases"][2]["channel"] = <<"stable">>

\* C14: the index get_charmcraft_bases_index gives is the 0-based position of
\* the first base entry of the descriptor that reads as the series; it gives
\* None when no entry does or no series is requested; for jammy/stable,
\* focal/stable and the series focal-stable it gives 1.
C14_FirstMatchingIndex ==
    BasesIndexDone =>
        /\ ret.index.some =>
              /\ ret.index.v + 1 \in 1..Len(descr.v["bases"])
              /\ EntryIsSeries(ret.index.v + 1)
              /\ \A m \in 1..ret.index.v : ~EntryIsSeries(m)
        /\ ~ret.index.some => \A j \in 1..Len(descr.v["bases"]) : ~EntryIsSeries(j)
        /\ ~series.some => ~ret.index.some
        /\ (ExampleDescriptor /\ series = Some(<<"focal", "-", "stable">>))
              => ret.index = Some(1)

\* The index was asked for the descriptor and the series of the example.
C14_Witness ==
    /\ BasesIndexDone
    /\ ExampleDescriptor
    /\ series = Some(<<"focal", "-", "stable">>)
    /\ ret.index.some

\* get_series_base has given back a base entry or {}.
SeriesBaseDone == pc = "returned" /\ cmd = "get_series_base" /\ ret.raised = "none"

\* The series reads <name>-<channel> with a hyphen in the channel.
HyphenInChannel == series.some /\ Cardinality(Hyphens(series.v)) >= 2

\* The j-th configured base has a name without hyphen, and name, hyphen and
\* channel make up the series: its name is what stands before the first
\* hyphen of the series, its channel all that follows.
BaseIsSeries(j) ==
    /\ "-" \notin Range(bases[j]["name"])
    /\ series.v = bases[j]["name"] \o <<"-">> \o bases[j]["channel"]

\* C15: for a series with a hyphen in its channel, get_series_base gives the
\* first configured base whose name is the part before the first hyphen and
\* whose channel is the whole remainder, and {} when there is none.
C15_SplitOnFirstHyphen ==
    (SeriesBaseDone /\ HyphenInChannel) =>
        LET hits == {j \in 1..Len(bases) : BaseIsSeries(j)}
        IN  /\ hits = {} => ret.base = EmptyDict
            /\ hits # {} => ret.base = bases[CHOOSE j \in hits : \A h \in hits : j <= h]

\* focal-lts-x was looked up in a configuration that lists the base of name
\* focal-lts and channel x before the base of name focal and channel lts-x.
C15_Witness ==
    /\ SeriesBaseDone
    /\ series = Some(<<"focal", "-", "lts", "-", "x">>)
    /\ bases = <<[name |-> <<"focal", "-", "lts">>, channel |-> <<"x">>],
                 [name |-> <<"focal">>, channel |-> <<"lts", "-", "x">>]>>
    /\ ret.base = bases[2]

\* The steps of lxc.provision on the instance, in the order of the claim.
ProvisionOrder ==
    <<"launch", "config_device", "mkdir_upper", "mkdir_work", "mkdir_merge",
      "mount_overlay", "mount_bind", "groupadd", "useradd">>

ProvisionSteps ==
    {"launch", "config_device", "mkdir_upper", "mkdir_work", "mkdir_merge",
     "mount_overlay", "mount_bind", "groupadd", "useradd"}

IsProvisionStep(c) == c \in ProvisionSteps

\* The steps of lxc.provision made so far in this build, in the order made.
ProvisionCalls == SelectSeq(calls, IsProvisionStep)

\* C17: the provisioning steps made in a build are, in this order and each at
\* most once, launch, passthrough device, the upper, work and merge
\* directories, overlay mount, bind mount, group, user; a bind mount has an
\* overlay mount before it, and a pack command in the instance has the bind
\* mount before it.
C17_ProvisionOrderFixed ==
    /\ LET made == ProvisionCalls
       IN  /\ Len(made) <= Len(ProvisionOrder)
           /\ \A j \in 1..Len(made) : made[j] = ProvisionOrder[j]
    /\ \A j \in 1..Len(calls) :
        /\ calls[j] = "mount_bind" => \E m \in 1..(j - 1) : calls[m] = "mount_overlay"
        /\ calls[j] = "pack_inst" => \E m \in 1..(j - 1) : calls[m] = "mount_bind"

\* A manual build has made every provisioning step and has run the pack
\* command in the instance.
C17_Witness ==
    /\ BuildEnded
    /\ ProvisionCalls = ProvisionOrder
    /\ "pack_inst" \in Range(calls)

\* Number of calls of c in the current build.
Times(c) == Cardinality({j \in 1..Len(calls) : calls[j] = c})

\* The entries of the listing that end in ".charm", in the order listed.
CharmEntries == SelectSeq(listed, EndsWithCharm)

\* A manual build has ended without exception.
ManualBuildEnded == BuildEnded /\ manual = "True" /\ exc = "none"

\* C18: a manual build never runs the pack command outside the instance or
\* more than once, and it calls file_pull only after a pack of exit status
\* zero, for entries of the listing that end in ".charm", in the order
\* listed. When it has ended without exception it has run the pack command
\* exactly once; after exit status zero file_pull was called exactly once for
\* each entry of the listing that ends in ".charm" and no failure was
\* reported; after a non-zero exit status file_pull was not called and the
\* failure was reported once.
C18_ManualPackOncePullAll ==
    /\ manual = "True" =>
          /\ Times("pack_host") = 0
          /\ Times("pack_inst") <= 1
          /\ Times("file_pull") = Len(pulls)
          /\ pulls # <<>> =>
                /\ packrc = <<"ok">>
                /\ Len(pulls) <= Len(CharmEntries)
                /\ pulls = SubSeq(CharmEntries, 1, Len(pulls))
    /\ ManualBuildEnded =>
          /\ Times("pack_inst") = 1
          /\ packrc = <<"ok">> => (pulls = CharmEntries /\ errs = 0)
          /\ packrc # <<"ok">> => (packrc = <<"fail">> /\ pulls = <<>> /\ errs = 1)

\* A manual build has ended after a pack of exit status zero and the pull of
\* the two artifacts of the listing.
C18_Witness ==
    /\ ManualBuildEnded
    /\ packrc = <<"ok">>
    /\ Len(CharmEntries) = 2
    /\ pulls = CharmEntries

\* A manual build has ended after a pack of non-zero exit status.
C18_WitnessFailed == ManualBuildEnded /\ packrc = <<"fail">> /\ errs = 1

\* C19: the packages whose build has started are, in this order, the first of
\* the discovery order (the arguments in the order given, the sorted matches
\* of each), and no package is among them twice.
C19_DiscoveryOrderEachOnce ==
    /\ Len(attempted) <= Len(ExpandNames(names))
    /\ attempted = SubSeq(ExpandNames(names), 1, Len(attempted))
    /\ \A m, n \in 1..Len(attempted) : m # n => attempted[m] # attempted[n]

\* The pack command has run in a launched instance.
PackedInInstance == manual = "True" /\ launched /\ NCalls({"pack_inst"}) >= 1

\* The host source tree is out of reach of the writes of a manual build,
\* whatever the provisioning steps gave.
HostTreeNotWritten == manual = "True" => WriteTarget # "host"

\* The path of the source takes writes: it is not the read-only device.
WritesTaken == WriteTarget \in {"upper", "merge", "host"}

\* C16: when the pack command has run in the instance, whatever the
\* provisioning steps gave, the writes it makes under the path of the source
\* do not go to the host: they go to the upper layer of the overlay.
C16_WritesLandInUpperLayer ==
    (PackedInInstance /\ WritesTaken) => WriteTarget = "upper"

====
